---- MODULE Spec2Model ----
(***************************************************************************)
(* A model of dom-to-canvas (src/dom-to-canvas.js): the builder that turns *)
(* a live DOM tree into a DOM-like snapshot annotated with layout          *)
(* intervals, the renderer's drawing calls, the hit-tester and the         *)
(* interaction handlers (click, hover, mutation callback) that own the     *)
(* module-level state (currentTree, treeStack, cellHeight, ...).           *)
(*                                                                         *)
(* Numbers of the program are JavaScript doubles; the model computes them  *)
(* in exact arithmetic as fractions <<numerator, denominator>> in lowest   *)
(* terms, with denominator 0 for the non-finite results of a division by   *)
(* zero (Infinity, -Infinity, NaN).                                        *)
(***************************************************************************)
EXTENDS Integers, Sequences, FiniteSets, TLC

(***************************************************************************)
(* Bounds of the model and constants of the program.                       *)
(***************************************************************************)
MaxStack == 2            \* drill-downs are offered while the stack is shorter
MaxMutations == 1        \* structural changes of the live document
CanvasWidth == 40        \* canvas.width
CanvasHeight == 19       \* canvas.height
MaxListeners == 2        \* mousemove listeners are counted up to this many

radius == 5              \* var radius = 5
MarkerOffset == 20       \* node.depth * height + 20
BackRegion == 20         \* x < 20 && y < 20

(***************************************************************************)
(* Exact fractions.                                                        *)
(***************************************************************************)
Abs(n) == IF n < 0 THEN 0 - n ELSE n

RECURSIVE GCD(_, _)
GCD(a, b) == IF b = 0 THEN a ELSE GCD(b, a % b)

\* n/d in lowest terms, the sign carried by the numerator; d = 0 gives the
\* non-finite values <<1,0>> (Infinity), <<-1,0>> (-Infinity), <<0,0>> (NaN).
Frac(n, d) ==
    IF d = 0 THEN <<(IF n > 0 THEN 1 ELSE IF n < 0 THEN 0 - 1 ELSE 0), 0>>
    ELSE LET s == IF d < 0 THEN 0 - 1 ELSE 1
             g == GCD(Abs(n), Abs(d))
         IN  <<(s * n) \div g, (s * d) \div g>>

Num(i) == <<i, 1>>
\* The operators below are applied to finite values only: the one non-finite
\* value the program computes, the child width of a node without children,
\* is never used.
Plus(a, b) == Frac(a[1] * b[2] + b[1] * a[2], a[2] * b[2])
Minus(a, b) == Frac(a[1] * b[2] - b[1] * a[2], a[2] * b[2])
Times(a, b) == Frac(a[1] * b[1], a[2] * b[2])
\* a / b; b = 0 gives JavaScript's Infinity or NaN
Over(a, b) == Frac(a[1] * b[2], a[2] * b[1])
Less(a, b) == a[1] * b[2] < b[1] * a[2]
LessEq(a, b) == a[1] * b[2] <= b[1] * a[2]

(***************************************************************************)
(* The live documents.  Node 1 is the page's own `document`, node 9 a      *)
(* second, fetched document; 7 and 8 are the close button and the canvas   *)
(* renderCurrentDOM creates; 12 is an element a page script has created    *)
(* and may append.  Tags, identifiers and attributes of a node never       *)
(* change in the model; the child lists (kids) and the background styles   *)
(* (style) do.                                                             *)
(***************************************************************************)
Nodes == 1 .. 12
Document == 1
FetchedDocument == 9
Documents == {Document, FetchedDocument}
CloseDiv == 7
Canvas == 8
Spare == 12
Body == 4
Null == 0                \* no live node (null / undefined)

\* Element.tagName; a Document has none (undefined)
TagOf(n) ==
    CASE n \in Documents -> "undefined"
      [] n \in {2, 10} -> "HTML"
      [] n = 3 -> "HEAD"
      [] n = Body -> "BODY"
      [] n \in {5, 11, Spare} -> "A"
      [] n = 6 -> "IMG"
      [] n = Canvas -> "CANVAS"
      [] OTHER -> "DIV"

\* Element.attributes as name -> value; a Document has no attribute collection
NoAttributes == [a \in {} |-> ""]
AttrsOf(n) ==
    CASE n = 5 -> [a \in {"href", "id"} |-> IF a = "href" THEN "u" ELSE "x"]
      [] n = 6 -> [a \in {"id"} |-> "x"]
      [] n = Spare -> [a \in {"href"} |-> ""]
      [] n = Canvas -> [a \in {"width", "height"} |-> "n"]
      [] OTHER -> NoAttributes

\* Element.id: the id attribute's value, "" when absent (undefined on a Document)
IdOf(n) == IF "id" \in DOMAIN AttrsOf(n) THEN AttrsOf(n)["id"] ELSE ""

\* only elements have a style object
HasStyle(n) == n \notin Documents

\* style.backgroundColor of the page's elements before the module writes
\* it: the page gives its first anchor a background of its own
InitialStyle == [n \in Nodes |-> IF n = 5 THEN "red" ELSE ""]

InitialKids ==
    [n \in Nodes |->
        CASE n = Document -> <<2>>
          [] n = 2 -> <<3, Body>>
          [] n = Body -> <<5, 6>>
          [] n = FetchedDocument -> <<10>>
          [] n = 10 -> <<11>>
          [] OTHER -> <<>>]

\* parents of the live document a page script appends to or removes from
MutableParents == {Body}

VARIABLES
    kids,                         \* live trees: node -> its element children
    style,                        \* live elements: node -> style.backgroundColor
    canvasWidth, canvasHeight,    \* canvas.width, canvas.height
    ctx,                          \* var ctx
    cellHeight,                   \* var cellHeight
    currentTreeHeight,            \* var currentTreeHeight
    currentTree,                  \* var currentTree
    currentHoveredNode,           \* var currentHoveredNode
    previousNodeBackgroundColor,  \* var previousNodeBackgroundColor
    treeStack,                    \* var treeStack
    listening,                    \* the canvas has its click and mousemove listeners
    observing,                    \* the MutationObserver is installed
    pendingMutation,              \* a mutation record awaits the observer's callback
    drawn,                        \* the canvas calls of the last handler run
    threw,                        \* the last handler run ended in an exception
    lastEvent,                    \* the last handler run and its input
    suppliedRoot,                 \* the root the last external render call rendered
    nMutations,                   \* the counter behind MaxMutations
    clickListeners,               \* the click listeners the canvas holds
    mousemoveListeners,           \* the mousemove listeners the canvas holds
    timers,                       \* the pending debounce timers: each one's event
    invocations                   \* timer callbacks run since the last mousemove event

vars == <<kids, style, canvasWidth, canvasHeight, ctx, cellHeight, currentTreeHeight,
          currentTree, currentHoveredNode, previousNodeBackgroundColor, treeStack,
          listening, observing, pendingMutation, drawn, threw, lastEvent,
          suppliedRoot, nMutations, clickListeners, mousemoveListeners, timers,
          invocations>>

\* the listeners registered on the canvas
listeners == <<clickListeners, mousemoveListeners>>
\* the debounce timers and the count of the handler runs they started
debounce == <<timers, invocations>>

(***************************************************************************)
(* Snapshot nodes.  A node object of a DOM-like tree is a record; `obj` is *)
(* the object's identity within its build: the path of child indices from  *)
(* the object traverseDomNodes made for the root (<<>>).  References to    *)
(* node objects (parentNode, the sibling links, the document index) hold   *)
(* such identities.  A source node handed to the builder is either a live  *)
(* node, Live(n), or a snapshot node.                                      *)
(***************************************************************************)
NoNode == <<0>>              \* null reference to a node object
AugmentedRoot == <<0, 0>>    \* the copy Object.assign makes of the root
NoTree == [undefined |-> TRUE]
Undefined == <<0, 0>>        \* an unset number: arithmetic on it gives NaN

Live(n) == [isLive |-> TRUE, ref |-> n]

\* what the builder reads from its source node
SrcTagName(node) == IF node.isLive THEN TagOf(node.ref) ELSE node.tagName
SrcId(node) == IF node.isLive THEN IdOf(node.ref) ELSE node.id
SrcChildElementCount(node) ==
    IF node.isLive THEN Len(kids[node.ref]) ELSE node.childElementCount
SrcChild(node, i) ==
    IF node.isLive THEN Live(kids[node.ref][i]) ELSE node.children[i]
\* a __nodeRef that a snapshot source does not hand on
SrcNodeRefDropped(node) == IF node.isLive THEN node.ref ELSE Null
\* node.__nodeRef || node
SrcNodeRef(node) == IF node.isLive THEN node.ref ELSE node.nodeRef
\* attributes instanceof NamedNodeMap
IsNamedNodeMap(node) == node.isLive /\ node.ref \notin Documents
\* the attribute copy loop (lines 168-184); undefined attributes give the
\* value [undefined |-> "undefined"]
NoAttributeCollection == [undefined |-> "undefined"]
\* an attribute copy that leaves the new node's mapping empty when the
\* source is a snapshot node
CopyAttributesEmptied(node) ==
    IF IsNamedNodeMap(node) THEN AttrsOf(node.ref)
    ELSE IF node.isLive THEN NoAttributeCollection
    ELSE NoAttributes
CopyAttributes(node) ==
    IF IsNamedNodeMap(node) THEN AttrsOf(node.ref)
    ELSE IF node.isLive THEN NoAttributeCollection
    ELSE node.attributes
\* node.attributes.href as a condition: an Attr object of a live element is
\* truthy whatever its value, a copied string only when it is not empty
HasHref(node) ==
    IF node.isLive
    THEN "href" \in DOMAIN AttrsOf(node.ref)
    ELSE "href" \in DOMAIN node.attributes /\ node.attributes["href"] # ""

\* a docParams that starts from the largestDepth of the current tree
DocParamsCarryingDepth ==
    [body |-> NoNode, head |-> NoNode, documentElement |-> NoNode,
     ids |-> [k \in {} |-> NoNode],
     links |-> <<>>, images |-> <<>>, scripts |-> <<>>, forms |-> <<>>,
     largestDepth |-> IF currentTree = NoTree THEN 0 ELSE currentTree.largestDepth]

\* a docParams that starts from the links bucket of the current tree
DocParamsCarryingLinks ==
    [body |-> NoNode, head |-> NoNode, documentElement |-> NoNode,
     ids |-> [k \in {} |-> NoNode],
     links |-> IF currentTree = NoTree THEN <<>> ELSE currentTree.links,
     images |-> <<>>, scripts |-> <<>>, forms |-> <<>>,
     largestDepth |-> 0]

\* the docParams literal of lines 243-257
EmptyDocParams ==
    [body |-> NoNode, head |-> NoNode, documentElement |-> NoNode,
     ids |-> [k \in {} |-> NoNode],
     links |-> <<>>, images |-> <<>>, scripts |-> <<>>, forms |-> <<>>,
     largestDepth |-> 0]

\* docRefTagsMap[node.tagName](newNode, node, docParams), when there is one
docRefTagsMap(tagName, newObj, node, docParams) ==
    CASE tagName = "HTML" -> [docParams EXCEPT !.documentElement = newObj]
      [] tagName = "HEAD" -> [docParams EXCEPT !.head = newObj]
      [] tagName = "BODY" -> [docParams EXCEPT !.body = newObj]
      [] tagName = "FORM" -> [docParams EXCEPT !.forms = Append(@, newObj)]
      [] tagName = "SCRIPT" -> [docParams EXCEPT !.scripts = Append(@, newObj)]
      [] tagName \in {"A", "AREA"} ->
            IF HasHref(node) THEN [docParams EXCEPT !.links = Append(@, newObj)]
            ELSE docParams
      [] tagName = "IMG" -> [docParams EXCEPT !.images = Append(@, newObj)]
      [] OTHER -> docParams

\* a child depth that stays at the parent's
ChildDepthSame(depth) == depth

\* var childDepth = depth + 1
ChildDepth(depth) == depth + 1

\* the width of a child's interval: (end - start) / childCount
ChildWidth(start, end, childCount) == Over(Minus(end, start), Num(childCount))

\* a ChildStart that leaves a gap of one unit before every child but the first
ChildStartGapped(start, width, i) ==
    Plus(start, Times(Num(i), Plus(width, Num(1))))

\* childStart = start + (i * width) for the i-th child, i counted from 0
ChildStart(start, width, i) == Plus(start, Times(Num(i), width))

\* sibling links that are bound forwards only
BindSiblingsForwards(children, childIndex, childCount) ==
    [children[childIndex] EXCEPT
        !.nextElementSibling =
            IF childIndex - 1 < childCount - 1 THEN children[childIndex + 1].obj ELSE @]

\* the sibling links (lines 217-225) of the child at position childIndex (from 1)
BindSiblings(children, childIndex, childCount) ==
    [children[childIndex] EXCEPT
        !.previousElementSibling =
            IF childIndex - 1 > 0 THEN children[childIndex - 1].obj ELSE @,
        !.nextElementSibling =
            IF childIndex - 1 < childCount - 1 THEN children[childIndex + 1].obj ELSE @]

\* a Register that keeps the entry an identifier already has
RegisterFirstWins(node, obj, depth, docParams) ==
    LET dp1 == IF depth > docParams.largestDepth
               THEN [docParams EXCEPT !.largestDepth = depth]
               ELSE docParams
        dp2 == IF SrcId(node) # ""
               THEN [dp1 EXCEPT !.ids = @ @@ (SrcId(node) :> obj)]
               ELSE dp1
    IN  docRefTagsMap(SrcTagName(node), obj, node, dp2)

\* lines 110-112, 186-195: what the visit of a node enters into docParams
\* before its children are visited
Register(node, obj, depth, docParams) ==
    LET dp1 == IF depth > docParams.largestDepth
               THEN [docParams EXCEPT !.largestDepth = depth]
               ELSE docParams
        dp2 == IF SrcId(node) # ""
               THEN [dp1 EXCEPT !.ids = (SrcId(node) :> obj) @@ @]
               ELSE dp1
    IN  docRefTagsMap(SrcTagName(node), obj, node, dp2)

\* newNode.children[k - 1] read without the test of line 212: undefined
\* when the array has no such element
EndChildUnguarded(children, childCount, k) ==
    IF k \in DOMAIN children THEN children[k].obj ELSE Undefined

\* lines 211-215: firstElementChild (k = 1) and lastElementChild
\* (k = childCount) are set if (childCount), and are null otherwise
EndChild(children, childCount, k) ==
    IF childCount > 0 THEN children[k].obj ELSE NoNode

\* the object literal of lines 130-153 with the attributes of lines 168-184,
\* its children pushed (208) and the links of lines 211-225 set
NewNode(node, parentNode, obj, depth, start, end, childCount, children) ==
    [isLive |-> FALSE,
     obj |-> obj,
     firstChild |-> NoNode,
     lastChild |-> NoNode,
     nextSibling |-> NoNode,
     previousSibling |-> NoNode,
     childNodes |-> <<>>,
     firstElementChild |-> EndChild(children, childCount, 1),
     lastElementChild |-> EndChild(children, childCount, childCount),
     nextElementSibling |-> NoNode,
     previousElementSibling |-> NoNode,
     children |-> [c \in 1 .. Len(children) |-> BindSiblings(children, c, childCount)],
     childElementCount |-> childCount,
     attributes |-> CopyAttributes(node),
     depth |-> depth,
     end |-> end,
     start |-> start,
     tagName |-> SrcTagName(node),
     parentNode |-> parentNode,
     id |-> SrcId(node),
     nodeRef |-> SrcNodeRef(node)]

\* the new node and docParams once the loop over the children has ended
\* with `below`
Traversed(node, parentNode, obj, depth, start, end, below) ==
    [node |-> NewNode(node, parentNode, obj, depth, start, end,
                      SrcChildElementCount(node), below.children),
     docParams |-> below.docParams]

RECURSIVE traverseDomNodes(_, _, _, _, _, _, _)
RECURSIVE TraverseChildren(_, _, _, _, _, _, _, _)
RECURSIVE PushChild(_, _, _, _, _, _, _, _)

\* newNode.children.push(child) and the rest of the loop
PushChild(node, newObj, childDepth, start, width, i, acc, built) ==
    TraverseChildren(node, newObj, childDepth, start, width, i + 1,
                     Append(acc, built.node), built.docParams)

\* The loop of lines 203-209 from child i (counted from 0) on: `acc` holds
\* newNode.children so far and docParams the index so far.
TraverseChildren(node, newObj, childDepth, start, width, i, acc, docParams) ==
    IF i < SrcChildElementCount(node)
    THEN PushChild(node, newObj, childDepth, start, width, i, acc,
                   traverseDomNodes(SrcChild(node, i + 1), newObj, Append(newObj, i + 1),
                                    childDepth, ChildStart(start, width, i),
                                    Plus(ChildStart(start, width, i), width), docParams))
    ELSE [children |-> acc, docParams |-> docParams]

\* traverseDomNodes(node, parentNode, depth, start, end, docParams); obj is
\* the identity of the object literal the call creates.  The result is the
\* new node and docParams as the call leaves it.
traverseDomNodes(node, parentNode, obj, depth, start, end, docParams) ==
    Traversed(node, parentNode, obj, depth, start, end,
              TraverseChildren(node, obj, ChildDepth(depth), start,
                               ChildWidth(start, end, SrcChildElementCount(node)),
                               0, <<>>, Register(node, obj, depth, docParams)))

\* Object.assign({}, newDocument, docParams): a new object with the root's
\* fields and docParams' fields
Augmented(built) == [built.node EXCEPT !.obj = AugmentedRoot] @@ built.docParams

\* createDOMLikeObject(myDoc, start, end)
createDOMLikeObject(myDoc, start, end) ==
    Augmented(traverseDomNodes(myDoc, NoNode, <<>>, 0, start, end, EmptyDocParams))

(***************************************************************************)
(* The renderer.  A run of drawNodes is the sequence of its canvas calls:  *)
(* a stroked line between the marker centres of two node objects, a filled *)
(* arc (the marker of a node object) or a text beside a marker.  The calls *)
(* are logged with the node objects; the coordinates they are made with    *)
(* are CenterX and CenterY of those nodes.                                 *)
(***************************************************************************)
\* x = node.start + (node.end - node.start) / 2
CenterX(node) == Plus(node.start, Over(Minus(node.end, node.start), Num(2)))
\* y = node.depth * height + 20
CenterY(node, height) == Plus(Times(Num(node.depth), height), Num(MarkerOffset))

Line(from, to) == [op |-> "line", from |-> from.obj, to |-> to.obj]
\* ctx.arc(x, y, radius, ...) for the marker of node, drawn with `height`
Arc(node, fill, height) ==
    [op |-> "arc", node |-> node.obj, fill |-> fill,
     at |-> <<CenterX(node), CenterY(node, height)>>]
FillText(text, node) == [op |-> "fillText", text |-> text, node |-> node.obj]
ClearRect == [op |-> "clearRect"]
FillRect == [op |-> "fillRect"]
BackArrow == [op |-> "backArrow"]

nodeColorMap(tagName) ==
    CASE tagName = "HTML" -> "#000"
      [] tagName = "HEAD" -> "#F00"
      [] tagName = "BODY" -> "#0F0"
      [] OTHER -> "#2F73D8"

nodesWithVisibleTags == {"HTML", "HEAD", "BODY"}

RECURSIVE drawNodes(_, _)
RECURSIVE DrawChildren(_, _, _)

\* node.children.forEach(...) of drawNodes from child i (from 1) on
DrawChildren(node, height, i) ==
    IF i > Len(node.children) THEN <<>>
    ELSE LET child == node.children[i]
         IN  <<Line(node, child)>>
             \o drawNodes(child, height)
             \o DrawChildren(node, height, i + 1)

\* a drawNodes that draws the marker of a node before it visits the children
drawNodesMarkerFirst(node, height) ==
    LET n == Len(node.children)
        span == IF node.firstElementChild # NoNode
                   /\ node.firstElementChild # node.lastElementChild
                THEN <<Line(node.children[1], node.children[n])>>
                ELSE <<>>
        label == IF node.tagName \in nodesWithVisibleTags
                 THEN <<FillText(node.tagName, node)>>
                 ELSE <<>>
    IN  span \o <<Arc(node, nodeColorMap(node.tagName), height)>> \o label
             \o DrawChildren(node, height, 1)

\* drawNodes(ctx, node, height)
drawNodes(node, height) ==
    LET n == Len(node.children)
        span == IF node.firstElementChild # NoNode
                   /\ node.firstElementChild # node.lastElementChild
                THEN <<Line(node.children[1], node.children[n])>>
                ELSE <<>>
        label == IF node.tagName \in nodesWithVisibleTags
                 THEN <<FillText(node.tagName, node)>>
                 ELSE <<>>
    IN  span \o DrawChildren(node, height, 1)
             \o <<Arc(node, nodeColorMap(node.tagName), height)>> \o label

(***************************************************************************)
(* The hit-tester.                                                         *)
(***************************************************************************)
NotFound == NoTree

\* isInNode of searchForNodeWithXY, for the cell height h
IsInNode(node, x, y, h) ==
    LET vCenter == CenterX(node)
        hCenter == CenterY(node, h)
    IN  /\ LessEq(Minus(vCenter, Num(radius)), x) /\ LessEq(x, Plus(vCenter, Num(radius)))
        /\ LessEq(Minus(hCenter, Num(radius)), y) /\ LessEq(y, Plus(hCenter, Num(radius)))

\* a range test that takes in both ends of the child's interval
InRangeClosed(child, x) == LessEq(child.start, x) /\ LessEq(x, child.end)

\* x > child.start && x < child.end
InRange(child, x) == Less(child.start, x) /\ Less(x, child.end)

RECURSIVE SearchWith(_, _, _, _)
RECURSIVE SearchChildren(_, _, _, _, _)

\* a loop that searches every child, whatever its interval
SearchEveryChild(node, x, y, h, i) ==
    IF i > node.childElementCount THEN NotFound
    ELSE IF SearchWith(node.children[i], x, y, h) # NotFound
    THEN SearchWith(node.children[i], x, y, h)
    ELSE SearchChildren(node, x, y, h, i + 1)

\* the for loop of searchForNodeWithXY from child i (from 1) on
SearchChildren(node, x, y, h, i) ==
    IF i > node.childElementCount THEN NotFound
    ELSE IF InRange(node.children[i], x) THEN SearchWith(node.children[i], x, y, h)
    ELSE SearchChildren(node, x, y, h, i + 1)

\* a hit-tester that looks below a node before it tests the node's own box
SearchBelowFirst(node, x, y, h) ==
    IF SearchChildren(node, x, y, h, 1) # NotFound THEN SearchChildren(node, x, y, h, 1)
    ELSE IF IsInNode(node, x, y, h) THEN node ELSE NotFound

\* searchForNodeWithXY with the module's cellHeight = h
SearchWith(node, x, y, h) ==
    IF IsInNode(node, x, y, h) THEN node ELSE SearchChildren(node, x, y, h, 1)

\* searchForNodeWithXY(node, x, y)
searchForNodeWithXY(node, x, y) == SearchWith(node, x, y, cellHeight)

(***************************************************************************)
(* The module state after the script has loaded, and the events.           *)
(***************************************************************************)
Highlight == "rgba(255, 255,0, 0.4)"

\* a handler run: its kind, whether the hit-tester ran, whether the marker
\* box of a node of the current tree held the pointer (what the hit-tester
\* answers or would have answered), the node object the hit-tester returned
\* and the live node the run was about
Event(kind, searched, covered, found, ref) ==
    [kind |-> kind, searched |-> searched, covered |-> covered, found |-> found,
     ref |-> ref]

Init ==
    /\ kids = InitialKids
    /\ style = InitialStyle
    /\ canvasWidth = CanvasWidth
    /\ canvasHeight = CanvasHeight
    /\ ctx = "undefined"
    /\ cellHeight = Undefined
    /\ currentTreeHeight = Undefined
    /\ currentTree = NoTree
    /\ currentHoveredNode = Null
    /\ previousNodeBackgroundColor = "undefined"
    /\ treeStack = <<>>
    /\ listening = FALSE
    /\ observing = FALSE
    /\ pendingMutation = FALSE
    /\ drawn = <<>>
    /\ threw = FALSE
    /\ lastEvent = Event("load", FALSE, FALSE, NoNode, Null)
    /\ suppliedRoot = Null
    /\ nMutations = 0
    /\ clickListeners = 0
    /\ mousemoveListeners = 0
    /\ timers = <<>>
    /\ invocations = 0

\* an arrow that is drawn only from the second entry of the stack on
ArrowIfDeep(stack) == IF Len(stack) > 1 THEN <<BackArrow>> ELSE <<>>

\* the back arrow of lines 418-425 and 513-520
ArrowIf(stack) == IF Len(stack) > 0 THEN <<BackArrow>> ELSE <<>>

\* canvas.height / (domLike.largestDepth + 1)
CellHeightOf(domLike) == Over(Num(canvasHeight), Num(domLike.largestDepth + 1))

\* if (!myDocument instanceof HTMLDocument) return;  -- the operand of
\* instanceof is the boolean !myDocument, which is no HTMLDocument
ShortCircuits(myDocument) == FALSE

\* what drawDOM(canvas, myDocument) builds; the root to build from
DrawDOMTree(myDocument) == createDOMLikeObject(myDocument, Num(0), Num(canvasWidth))

\* lines 502-520 of drawDOM for the tree domLike, with treeStack = stack: the
\* values left in the module variables and the canvas calls
Rendered(domLike, stack) ==
    [currentTree |-> domLike,
     cellHeight |-> CellHeightOf(domLike),
     currentTreeHeight |-> CellHeightOf(domLike),
     drawn |-> <<ClearRect, FillRect>> \o drawNodes(domLike, CellHeightOf(domLike))
                  \o ArrowIf(stack)]

\* The body of drawDOM from line 499 on, for a root that can be traversed.
drawDOM(myDocument, stack) == Rendered(DrawDOMTree(myDocument), stack)

\* the effect of a run r of drawDOM on the module variables and the canvas
Drawn(r) ==
    /\ currentTree' = r.currentTree
    /\ cellHeight' = r.cellHeight
    /\ currentTreeHeight' = r.currentTreeHeight
    /\ drawn' = r.drawn

\* the roots the page hands to drawDOM: a document, or null (an empty response)
NullRoot == Live(Null)
ExternalRoots == {Live(Document), Live(FetchedDocument), NullRoot}

\* lines 528-539 run n times, and lines 635-644: addEventListener('click',
\* handleCanvasClick) adds the one function handleCanvasClick, which the
\* canvas holds once however often it is added; every
\* addEventListener('mousemove', function (event) {...}) adds a function of
\* its own, with a canvasDebounce of its own.  A count of MaxListeners
\* stands for that many listeners or more.
Registered(n) ==
    /\ clickListeners' = 1
    /\ mousemoveListeners' = IF mousemoveListeners + n > MaxListeners
                             THEN MaxListeners
                             ELSE mousemoveListeners + n

\* An external call drawDOM(canvas, root), as public/javascripts/app.js makes
\* it on every response.
DrawDOM(root) ==
    /\ ~observing
    /\ lastEvent' = Event("drawDOM", FALSE, FALSE, NoNode, root.ref)
    /\ UNCHANGED <<kids, style, canvasWidth, canvasHeight, currentHoveredNode,
                   previousNodeBackgroundColor, treeStack, observing, pendingMutation,
                   nMutations, debounce>>
    /\ IF ShortCircuits(root)
       THEN /\ drawn' = <<>>
            /\ threw' = FALSE
            /\ UNCHANGED <<ctx, cellHeight, currentTreeHeight, currentTree, listening,
                           suppliedRoot, listeners>>
       ELSE IF root = NullRoot
       THEN \* ctx is set, then node.childElementCount raises a TypeError
            /\ ctx' = "2d"
            /\ drawn' = <<>>
            /\ threw' = TRUE
            /\ UNCHANGED <<cellHeight, currentTreeHeight, currentTree, listening,
                           suppliedRoot, listeners>>
       ELSE /\ ctx' = "2d"
            /\ Drawn(drawDOM(root, treeStack))
            /\ threw' = FALSE
            /\ listening' = TRUE
            /\ Registered(1)
            /\ suppliedRoot' = root.ref

\* renderCurrentDOM(width, height): drawDOM(canvas, document), then the close
\* button and the canvas are appended to document.body, a mousemove listener
\* is added to the canvas besides the one drawDOM added, then the observer is
\* installed.
RenderCurrentDOM ==
    /\ ~observing
    /\ ctx = "undefined"
    /\ ctx' = "2d"
    /\ Drawn(drawDOM(Live(Document), treeStack))
    /\ kids' = [kids EXCEPT ![Body] = @ \o <<CloseDiv, Canvas>>]
    /\ listening' = TRUE
    /\ Registered(2)
    /\ observing' = TRUE
    /\ threw' = FALSE
    /\ lastEvent' = Event("renderCurrentDOM", FALSE, FALSE, NoNode, Document)
    /\ suppliedRoot' = Document
    /\ UNCHANGED <<style, canvasWidth, canvasHeight, currentHoveredNode,
                   previousNodeBackgroundColor, treeStack, pendingMutation,
                   nMutations, debounce>>

\* a back test that gives way to a marker box holding the point
IsBackClickUnlessCovered(x, y) ==
    /\ Less(x, Num(BackRegion)) /\ Less(y, Num(BackRegion)) /\ Len(treeStack) > 0
    /\ searchForNodeWithXY(currentTree, x, y) = NotFound

\* x < 20 && y < 20 && treeStack.length
IsBackClick(x, y) ==
    Less(x, Num(BackRegion)) /\ Less(y, Num(BackRegion)) /\ Len(treeStack) > 0

\* treeStack.pop(): the popped tree and the stack it leaves
Pop(stack) == [tree |-> stack[Len(stack)], stack |-> SubSeq(stack, 1, Len(stack) - 1)]

\* a DrillDown that builds from the live node the found node refers to
DrillDownFromLive(found) ==
    [tree |-> createDOMLikeObject(Live(found.nodeRef), Num(0), Num(canvasWidth)),
     stack |-> Append(treeStack, currentTree)]

\* a DrillDown that pushes the new tree instead of the one that was current
DrillDownPushesNew(found) ==
    [tree |-> createDOMLikeObject(found, Num(0), Num(canvasWidth)),
     stack |-> Append(treeStack, createDOMLikeObject(found, Num(0), Num(canvasWidth)))]

\* createDOMLikeObject(found, 0, canvas.width); treeStack.push(currentTree)
\* a drill-down whose build writes the depth it reached into its source tree
DrillDownMarksSource(found) ==
    [tree |-> createDOMLikeObject(found, Num(0), Num(canvasWidth)),
     stack |-> Append(treeStack,
                      [currentTree EXCEPT !.largestDepth =
                          createDOMLikeObject(found, Num(0), Num(canvasWidth)).largestDepth])]

\* a drill-down that builds the new tree over the interval of the found node
DrillDownInPlace(found) ==
    [tree |-> createDOMLikeObject(found, found.start, found.end),
     stack |-> Append(treeStack, currentTree)]

DrillDown(found) ==
    [tree |-> createDOMLikeObject(found, Num(0), Num(canvasWidth)),
     stack |-> Append(treeStack, currentTree)]

\* a click that draws domLike but leaves cellHeight as it was
ShowKeepsCellHeight(domLike, stack) ==
    /\ treeStack' = stack
    /\ currentTree' = domLike
    /\ cellHeight' = cellHeight
    /\ drawn' = <<ClearRect, FillRect>> \o ArrowIf(stack)
                   \o drawNodes(domLike, CellHeightOf(domLike))

\* lines 409-428: domLike becomes the current tree and is drawn, with
\* treeStack = stack
Show(domLike, stack) ==
    /\ treeStack' = stack
    /\ currentTree' = domLike
    /\ cellHeight' = CellHeightOf(domLike)
    /\ drawn' = <<ClearRect, FillRect>> \o ArrowIf(stack)
                   \o drawNodes(domLike, CellHeightOf(domLike))

\* a click that redraws the current tree when the hit-tester finds no node
ClickMissedRedraws == Show(currentTree, treeStack)

\* if (!found) return;
ClickMissed ==
    /\ drawn' = <<>>
    /\ UNCHANGED <<currentTree, treeStack, cellHeight>>

\* lines 396-407: a back click, or else the hit-tester is called and answers
\* `hit`.  On a back click the hit-tester is not called; `hit` is then what it
\* would have answered and is only recorded.
Clicked(back, hit) ==
    /\ lastEvent' = Event("click", ~back, hit # NotFound,
                          IF back \/ hit = NotFound THEN NoNode ELSE hit.obj,
                          IF back \/ hit = NotFound THEN Null ELSE hit.nodeRef)
    /\ IF back
       THEN Show(Pop(treeStack).tree, Pop(treeStack).stack)
       ELSE IF hit = NotFound
       THEN ClickMissed
       ELSE /\ Len(treeStack) < MaxStack
            /\ Show(DrillDown(hit).tree, DrillDown(hit).stack)

Attached(n) == \E p \in Nodes : \E i \in 1 .. Len(kids[p]) : kids[p][i] = n

\* the canvas is in the page and can be pointed at: renderCurrentDOM's canvas
\* until its close handler has removed it, the page's own canvas always
CanvasOnPage == ~observing \/ Attached(Canvas)

\* handleCanvasClick(event) with event.offsetX = x, event.offsetY = y
handleCanvasClick(x, y) ==
    /\ listening
    /\ CanvasOnPage
    /\ ~pendingMutation
    /\ UNCHANGED <<kids, style, canvasWidth, canvasHeight, ctx, currentTreeHeight,
                   currentHoveredNode, previousNodeBackgroundColor, listening,
                   observing, pendingMutation, suppliedRoot, nMutations, listeners,
                   debounce>>
    /\ threw' = FALSE
    /\ Clicked(IsBackClick(x, y), searchForNodeWithXY(currentTree, x, y))

\* a highlight that saves the background of the node before the revert of
\* the node highlighted so far
HighlightedSavingFirst(domNode, reverted) ==
    IF HasStyle(domNode)
    THEN /\ previousNodeBackgroundColor' = style[domNode]
         /\ style' = [reverted EXCEPT ![domNode] = Highlight]
         /\ currentHoveredNode' = domNode
    ELSE /\ style' = reverted
         /\ UNCHANGED <<currentHoveredNode, previousNodeBackgroundColor>>

\* lines 468-479: the highlight moves to the live node domNode
Highlighted(domNode, reverted) ==
    IF HasStyle(domNode)
    THEN /\ previousNodeBackgroundColor' = reverted[domNode]
         /\ style' = [reverted EXCEPT ![domNode] = Highlight]
         /\ currentHoveredNode' = domNode
    ELSE /\ style' = reverted
         /\ UNCHANGED <<currentHoveredNode, previousNodeBackgroundColor>>

\* a hover handler that leaves the node highlighted before as it is
NotReverted == style

\* lines 471-473: the node highlighted before gets its background back
Reverted ==
    IF currentHoveredNode # Null
    THEN [style EXCEPT ![currentHoveredNode] = previousNodeBackgroundColor]
    ELSE style

\* lines 454-466: the redraw r (the tree line 455 builds is dropped) and the
\* node's text
Redrawn(foundNode, r) ==
    /\ Registered(1)
    /\ currentTree' = r.currentTree
    /\ cellHeight' = r.cellHeight
    /\ currentTreeHeight' = r.currentTreeHeight
    /\ drawn' = Append(r.drawn, FillText(<<foundNode.tagName, foundNode.id>>, foundNode))

\* a hover handler that reverts the highlighted node when it finds no node
HoverMissedReverts ==
    /\ drawn' = <<>>
    /\ style' = Reverted
    /\ UNCHANGED <<cellHeight, currentTreeHeight, currentTree,
                   currentHoveredNode, previousNodeBackgroundColor, listeners>>

\* if (!foundNode) return;
HoverMissed ==
    /\ drawn' = <<>>
    /\ UNCHANGED <<style, cellHeight, currentTreeHeight, currentTree,
                   currentHoveredNode, previousNodeBackgroundColor, listeners>>

\* lines 444-479 for the hit-tester's answer foundNode
Hovered(foundNode) ==
    IF foundNode = NotFound
    THEN /\ lastEvent' = Event("hover", TRUE, FALSE, NoNode, Null)
         /\ HoverMissed
    ELSE /\ lastEvent' = Event("hover", TRUE, TRUE, foundNode.obj, foundNode.nodeRef)
         /\ IF foundNode.tagName # "undefined"
            THEN Redrawn(foundNode, drawDOM(currentTree, treeStack))
            ELSE /\ drawn' = <<>>
                 /\ UNCHANGED <<currentTree, cellHeight, currentTreeHeight, listeners>>
         /\ Highlighted(foundNode.nodeRef, Reverted)

\* handleCurrentDocumentMouseMove(event), called by the debounce timer with
\* event.offsetX = x, event.offsetY = y
handleCurrentDocumentMouseMove(x, y) ==
    /\ listening
    /\ ~pendingMutation
    /\ UNCHANGED <<kids, canvasWidth, canvasHeight, ctx, treeStack, listening,
                   observing, pendingMutation, suppliedRoot, nMutations>>
    /\ threw' = FALSE
    /\ Hovered(searchForNodeWithXY(currentTree, x, y))

(***************************************************************************)
(* A page script changes the page's document during a renderCurrentDOM     *)
(* session; the observer installed on `document` (childList, subtree) is   *)
(* told of the changes below `document`.  Fetched documents run no script. *)
(***************************************************************************)
RECURSIVE Subtree(_)
\* n and its descendants in the live tree
Subtree(n) == {n} \cup UNION {Subtree(kids[n][i]) : i \in 1 .. Len(kids[n])}

Mutate(p, newKids) ==
    /\ observing
    /\ nMutations < MaxMutations
    /\ nMutations' = nMutations + 1
    /\ kids' = [kids EXCEPT ![p] = newKids]
    /\ pendingMutation' = (pendingMutation \/ (observing /\ p \in Subtree(Document)))
    /\ drawn' = <<>>
    /\ threw' = FALSE
    /\ lastEvent' = Event("mutate", FALSE, FALSE, NoNode, p)
    /\ UNCHANGED <<style, canvasWidth, canvasHeight, ctx, cellHeight, currentTreeHeight,
                   currentTree, currentHoveredNode, previousNodeBackgroundColor,
                   treeStack, listening, observing, suppliedRoot, listeners,
                   debounce>>

\* p.appendChild(spare)
AppendChild(p) ==
    /\ ~Attached(Spare)
    /\ Mutate(p, Append(kids[p], Spare))

\* p.removeChild(p.firstElementChild)
RemoveChild(p) ==
    /\ Len(kids[p]) > 0
    /\ Mutate(p, Tail(kids[p]))

\* treeStack.map(tree => createDOMLikeObject(tree.__nodeRef, 0, canvas.width))
RebuildStack(stack) ==
    [i \in 1 .. Len(stack) |->
        createDOMLikeObject(Live(stack[i].nodeRef), Num(0), Num(canvasWidth))]

\* currentTree = createDOMLikeObject(currentTree.__nodeRef, 0, canvas.width)
RebuildCurrent(tree) == createDOMLikeObject(Live(tree.nodeRef), Num(0), Num(canvasWidth))

\* the MutationObserver's callback (lines 664-679)
MutationCallback ==
    /\ pendingMutation
    /\ pendingMutation' = FALSE
    /\ treeStack' = RebuildStack(treeStack)
    /\ Drawn(drawDOM(RebuildCurrent(currentTree), treeStack))
    /\ threw' = FALSE
    /\ lastEvent' = Event("mutationCallback", FALSE, FALSE, NoNode, Null)
    /\ Registered(1)
    /\ UNCHANGED <<kids, style, canvasWidth, canvasHeight, ctx, currentHoveredNode,
                   previousNodeBackgroundColor, listening, observing, suppliedRoot,
                   nMutations, debounce>>

(***************************************************************************)
(* The pointer positions tried.  Clicks: the marker centre of every node   *)
(* of the current tree, the boundary between the root's first two          *)
(* children, and three points above the rows below the first (y <= 15):    *)
(* two in the back region, one outside it.  Hovers: the marker centres of  *)
(* the root and of its first child, and the point outside the back region. *)
(***************************************************************************)
RECURSIVE NodesOf(_)
NodesOf(node) == {node} \cup UNION {NodesOf(node.children[i]) : i \in 1 .. Len(node.children)}

Center(node) == <<CenterX(node), CenterY(node, cellHeight)>>

BoundaryPoints(tree) ==
    IF Len(tree.children) >= 2
    THEN {<<tree.children[1].end, CenterY(tree.children[1], cellHeight)>>}
    ELSE {}

MissPoint == <<Num(30), Num(10)>>
\* the tip of the back arrow, and the corner of the root's marker box
ArrowPoint == <<Num(10), Num(10)>>
BoxCorner == <<Minus(Over(Num(canvasWidth), Num(2)), Num(radius)), Num(15)>>
CornerPoints == {ArrowPoint, BoxCorner, MissPoint}

ClickPoints ==
    IF currentTree = NoTree THEN {}
    ELSE {Center(n) : n \in NodesOf(currentTree)} \cup BoundaryPoints(currentTree)
         \cup CornerPoints

HoverPoints ==
    IF currentTree = NoTree THEN {}
    ELSE {Center(currentTree), MissPoint}
         \cup (IF Len(currentTree.children) > 0
               THEN {Center(currentTree.children[1])}
               ELSE {})

\* the callback of some debounce timer (lines 535-537, 640-642) runs the
\* hover handler with a mousemove event at p; the timers are not followed
HoverAt(p) ==
    /\ handleCurrentDocumentMouseMove(p[1], p[2])
    /\ UNCHANGED debounce

Next ==
    \/ \E root \in ExternalRoots : DrawDOM(root)
    \/ RenderCurrentDOM
    \/ \E p \in ClickPoints : handleCanvasClick(p[1], p[2])
    \/ \E p \in HoverPoints : HoverAt(p)
    \/ \E p \in MutableParents : AppendChild(p)
    \/ \E p \in MutableParents : RemoveChild(p)
    \/ MutationCallback

Spec == Init /\ [][Next]_vars

(***************************************************************************)
(* The canvas under pointer moves, with the debounce timers followed: the  *)
(* renders from outside, the mousemove events, the timer callbacks, and    *)
(* the close button of renderCurrentDOM's overlay.                         *)
(***************************************************************************)
\* a mousemove event at p on the canvas: every mousemove listener clears
\* the timer it has pending and sets one for this event (lines 531-538,
\* 636-643)
MouseMove(p) ==
    /\ mousemoveListeners > 0
    /\ CanvasOnPage
    /\ ~pendingMutation
    /\ timers' = [i \in 1 .. mousemoveListeners |-> p]
    /\ invocations' = 0
    /\ drawn' = <<>>
    /\ threw' = FALSE
    /\ lastEvent' = Event("mousemove", FALSE, FALSE, NoNode, Null)
    /\ UNCHANGED <<kids, style, canvasWidth, canvasHeight, ctx, cellHeight,
                   currentTreeHeight, currentTree, currentHoveredNode,
                   previousNodeBackgroundColor, treeStack, listening, observing,
                   pendingMutation, suppliedRoot, nMutations, listeners>>

\* the timer set first comes due, 10 ms after the event: its callback runs
\* the hover handler with the event it was set for
TimerFires ==
    /\ timers # <<>>
    /\ handleCurrentDocumentMouseMove(Head(timers)[1], Head(timers)[2])
    /\ timers' = Tail(timers)
    /\ invocations' = invocations + 1

\* what is left of the children of document.body once closeDiv and canvas
\* have been removed
WithoutOverlay(children) == SelectSeq(children, LAMBDA c : c \notin {CloseDiv, Canvas})

\* the click listener of closeDiv (lines 646-654): the overlay is removed
\* from document.body, which the MutationObserver reports, and the
\* highlighted node gets its background back.  The observer, the
\* listeners of the canvas, the pending timers and currentHoveredNode
\* stay as they are.
Close ==
    /\ observing
    /\ ~pendingMutation
    /\ \E i \in 1 .. Len(kids[Body]) : kids[Body][i] = CloseDiv
    /\ \E i \in 1 .. Len(kids[Body]) : kids[Body][i] = Canvas
    /\ kids' = [kids EXCEPT ![Body] = WithoutOverlay(@)]
    /\ style' = Reverted
    /\ pendingMutation' = TRUE
    /\ drawn' = <<>>
    /\ threw' = FALSE
    /\ lastEvent' = Event("close", FALSE, FALSE, NoNode, Null)
    /\ UNCHANGED <<canvasWidth, canvasHeight, ctx, cellHeight, currentTreeHeight,
                   currentTree, currentHoveredNode, previousNodeBackgroundColor,
                   treeStack, listening, observing, suppliedRoot, nMutations,
                   listeners, debounce>>

PointerNext ==
    \/ \E root \in ExternalRoots : DrawDOM(root)
    \/ RenderCurrentDOM
    \/ \E p \in HoverPoints : MouseMove(p)
    \/ TimerFires
    \/ Close
    \/ MutationCallback

PointerSpec == Init /\ [][PointerNext]_vars

(***************************************************************************)
(* OverlaySpec: a renderCurrentDOM session on a page that no script        *)
(* changes, with the debounce timers followed: the clicks on the canvas,   *)
(* the mousemove events, the timer callbacks, the close button and the     *)
(* observer's callback.                                                    *)
(***************************************************************************)
OverlayNext ==
    \/ RenderCurrentDOM
    \/ \E p \in ClickPoints : handleCanvasClick(p[1], p[2])
    \/ \E p \in HoverPoints : MouseMove(p)
    \/ TimerFires
    \/ Close
    \/ MutationCallback

OverlaySpec == Init /\ [][OverlayNext]_vars

(***************************************************************************)
(* SessionSpec: the views and the highlight of a page that no script       *)
(* changes, with the close button of renderCurrentDOM's overlay.  As in    *)
(* Spec, the hover handler runs as the callback of some debounce timer.    *)
(***************************************************************************)
SessionNext ==
    \/ \E root \in ExternalRoots : DrawDOM(root)
    \/ RenderCurrentDOM
    \/ \E p \in ClickPoints : handleCanvasClick(p[1], p[2])
    \/ \E p \in HoverPoints : HoverAt(p)
    \/ Close
    \/ MutationCallback

SessionSpec == Init /\ [][SessionNext]_vars

(***************************************************************************)
(* The trees the module holds, and the builds the claims are checked on.   *)
(***************************************************************************)
\* the current tree, when there is one, and the entries of the stack
HeldTrees ==
    (IF currentTree = NoTree THEN {} ELSE {currentTree})
    \cup {treeStack[i] : i \in 1 .. Len(treeStack)}

\* intervals with end >= start a build is tried with besides [0, canvas.width]:
\* an empty one and one with fractional bounds
BuildIntervals == {<<Num(3), Num(3)>>, <<Frac(1, 2), Frac(20, 3)>>}

\* builds of the page's live document as it is now, made in the states in
\* which its live tree is new: at load, after renderCurrentDOM has appended
\* to it and after a script has changed it (the live tree changes in no
\* other step, and the builder reads nothing else)
LiveBuilds ==
    IF lastEvent.kind \in {"load", "renderCurrentDOM", "mutate"}
    THEN {createDOMLikeObject(Live(Document), iv[1], iv[2]) : iv \in BuildIntervals}
    ELSE {}

\* the children of node, in child order, partition [node.start, node.end]
Partitions(node) ==
    LET n == Len(node.children)
    IN  n >= 1 =>
          /\ node.children[1].start = node.start
          /\ node.children[n].end = node.end
          /\ \A i \in 1 .. n - 1 : node.children[i].end = node.children[i + 1].start
          /\ \A i \in 1 .. n : LessEq(node.children[i].start, node.children[i].end)
          /\ \A i, j \in 1 .. n :
                i < j => LessEq(node.children[i].end, node.children[j].start)

\* C1: in every tree createDOMLikeObject returns for an interval with
\* end >= start (the trees the module holds and builds of the live document
\* over other intervals), the intervals of the children of every node with
\* at least one child are contiguous in child order, do not overlap, begin at
\* the parent's start and finish at the parent's end, in exact arithmetic.
C1_ChildrenPartitionParent ==
    \A tree \in HeldTrees \cup LiveBuilds : \A node \in NodesOf(tree) : Partitions(node)

\* a held tree has a node with three or more children whose bounds are not
\* whole numbers
C1_Witness ==
    \E tree \in HeldTrees : \E node \in NodesOf(tree) :
        /\ Len(node.children) >= 3
        /\ node.children[2].start[2] # 1
        /\ Partitions(node)

(***************************************************************************)
(* The kinds of handler run, read from the record the run leaves.          *)
(***************************************************************************)
IsDrillDown(e) == e.kind = "click" /\ e.searched /\ e.found # NoNode
IsBack(e) == e.kind = "click" /\ ~e.searched
IsMissedClick(e) == e.kind = "click" /\ e.searched /\ e.found = NoNode
IsMissedHover(e) == e.kind = "hover" /\ e.found = NoNode

\* the live nodes the trees of a stack were built for, in stack order
RootsOf(stack) == [i \in 1 .. Len(stack) |-> stack[i].nodeRef]

\* C2: the navigation stack is a LIFO history.  A drill-down appends exactly
\* the tree that was current before the click; a back click removes exactly
\* the last entry and makes it current; a mutation notification keeps the
\* length of the stack and the source roots of its entries and of the current
\* tree; every other step leaves the stack as it is.  The stack is empty when
\* the script has loaded, so its length is the number of drill-downs less the
\* number of back clicks.
C2_Step ==
    /\ IsDrillDown(lastEvent') => treeStack' = Append(treeStack, currentTree)
    /\ IsBack(lastEvent') =>
          /\ Len(treeStack) > 0
          /\ treeStack' = SubSeq(treeStack, 1, Len(treeStack) - 1)
          /\ currentTree' = treeStack[Len(treeStack)]
    /\ lastEvent'.kind = "mutationCallback" =>
          /\ RootsOf(treeStack') = RootsOf(treeStack)
          /\ currentTree'.nodeRef = currentTree.nodeRef
    /\ ~(IsDrillDown(lastEvent') \/ IsBack(lastEvent')
         \/ lastEvent'.kind = "mutationCallback") => treeStack' = treeStack

C2_StackIsLIFO == [][C2_Step]_vars

\* two drill-downs and one back click later, with a mutation notification
\* handled on the way: one entry is left
C2_Witness ==
    /\ IsBack(lastEvent)
    /\ Len(treeStack) = 1
    /\ nMutations > 0
    /\ ~pendingMutation
    /\ TagOf(currentTree.nodeRef) # "undefined"

(***************************************************************************)
(* The hit-tester on the marker centres of the current tree.               *)
(***************************************************************************)
RECURSIVE Descend(_, _, _)
\* the node object k steps down the path of child indices from node
Descend(node, path, k) ==
    IF k = 0 THEN node ELSE Descend(node.children[path[1]], Tail(path), k - 1)

\* the nodes of tree that have n below them: those on the path to n
ProperAncestors(tree, n) ==
    IF n.obj = AugmentedRoot THEN {}
    ELSE {Descend(tree, n.obj, k) : k \in 0 .. Len(n.obj) - 1}

\* the node objects whose marker box, at the current cell height, holds p
Covering(nodes, p) == {a \in nodes : IsInNode(a, p[1], p[2], cellHeight)}

\* what the hit-tester started at the root answers for the marker centre of n
FoundAtCenter(n) == searchForNodeWithXY(currentTree, Center(n)[1], Center(n)[2])

\* C3 as stated: the hit-tester, started at the root with the cell height of
\* the rendering, answers n for the marker centre of any node n of the
\* current tree.
C3_CenterFindsNode ==
    currentTree # NoTree =>
        \A n \in NodesOf(currentTree) : FoundAtCenter(n) = n

\* C3, amended: the hit-tester answers n for the marker centre of n unless
\* the marker box of a proper ancestor of n holds that point; then it answers
\* the ancestor nearest to the root whose box holds it.  It never answers
\* none.
C3_CenterFindsNodeOrCoveringAncestor ==
    currentTree # NoTree =>
        \A n \in NodesOf(currentTree) :
            LET covering == Covering(ProperAncestors(currentTree, n), Center(n))
            IN  IF covering = {}
                THEN FoundAtCenter(n) = n
                ELSE /\ FoundAtCenter(n) \in covering
                     /\ \A a \in covering : FoundAtCenter(n).depth <= a.depth

\* the rows are as far apart as the marker's half-size: the box of the root
\* holds the centre of its child, and the hit-tester answers the root
C3_Witness ==
    /\ currentTree # NoTree
    /\ \E n \in NodesOf(currentTree) :
          /\ Covering(ProperAncestors(currentTree, n), Center(n)) # {}
          /\ FoundAtCenter(n) # n
          /\ FoundAtCenter(n).depth = 0
    /\ \E n \in NodesOf(currentTree) :
          /\ n.depth > 0
          /\ FoundAtCenter(n) = n

(***************************************************************************)
(* The mutation notification.                                              *)
(***************************************************************************)
\* a build of the live tree under the source root of tree, over the surface
FreshBuild(tree) == createDOMLikeObject(Live(tree.nodeRef), Num(0), Num(canvasWidth))

\* the document index without its links bucket
WithoutLinks(tree) == [tree EXCEPT !.links = <<>>]

\* C4 as stated: the mutation callback keeps the length of the stack and the
\* source roots of its entries in order, replaces every entry and the current
\* tree by what a build of the live tree under its source root over
\* [0, canvas.width] gives, and renders the current tree.
C4_Step ==
    lastEvent'.kind = "mutationCallback" =>
        /\ RootsOf(treeStack') = RootsOf(treeStack)
        /\ \A i \in 1 .. Len(treeStack) : treeStack'[i] = FreshBuild(treeStack[i])
        /\ currentTree' = FreshBuild(currentTree)
        /\ drawn' = Rendered(currentTree', treeStack').drawn

C4_RebuildMatchesLive == [][C4_Step]_vars

\* What does hold of the callback: the stack entries are fresh builds of the
\* live tree, and so is the current tree apart from its links bucket, which
\* is filled by a second build whose source is the snapshot.
C4_StepApartFromLinks ==
    lastEvent'.kind = "mutationCallback" =>
        /\ RootsOf(treeStack') = RootsOf(treeStack)
        /\ \A i \in 1 .. Len(treeStack) : treeStack'[i] = FreshBuild(treeStack[i])
        /\ WithoutLinks(currentTree') = WithoutLinks(FreshBuild(currentTree))
        /\ drawn' = Rendered(currentTree', treeStack').drawn

C4_RebuildMatchesLiveApartFromLinks == [][C4_StepApartFromLinks]_vars

\* the callback has run with entries on the stack, after an anchor with an
\* empty href was appended below the current root
C4_Witness ==
    /\ lastEvent.kind = "mutationCallback"
    /\ Len(treeStack) > 0
    /\ Spare \in Subtree(currentTree.nodeRef)
    /\ currentTree # FreshBuild(currentTree)

(***************************************************************************)
(* The drill-down.                                                         *)
(***************************************************************************)
RECURSIVE SnapshotShape(_)
\* the live nodes a snapshot refers to, as a tree
SnapshotShape(node) ==
    [ref |-> node.nodeRef,
     children |-> [i \in 1 .. Len(node.children) |-> SnapshotShape(node.children[i])]]

RECURSIVE LiveShape(_)
\* the live tree below n as it is now
LiveShape(n) ==
    [ref |-> n, children |-> [i \in 1 .. Len(kids[n]) |-> LiveShape(kids[n][i])]]

\* the node object of tree with the identity obj
NodeAt(tree, obj) == CHOOSE node \in NodesOf(tree) : node.obj = obj

\* the root of tree spans the surface
SpansSurface(tree) ==
    tree.depth = 0 /\ tree.start = Num(0) /\ tree.end = Num(canvasWidth)

\* C5 as stated: after a click that hits node n of the current tree, the
\* current tree is a snapshot over [0, canvas.width] of the live tree under
\* n.__nodeRef: it has the live source's children as they are at click time.
C5_StepFromLive ==
    IsDrillDown(lastEvent') =>
        /\ SpansSurface(currentTree')
        /\ SnapshotShape(currentTree') = LiveShape(lastEvent'.ref)

C5_StepFromSnapshot ==
    IsDrillDown(lastEvent') =>
        /\ SpansSurface(currentTree')
        /\ currentTree'.nodeRef = lastEvent'.ref
        /\ SnapshotShape(currentTree')
              = SnapshotShape(NodeAt(currentTree, lastEvent'.found))

RenderedExternally == lastEvent.kind = "drawDOM" /\ ~threw

\* C6 as stated: every external call of drawDOM that renders a root leaves
\* the navigation stack empty, whatever drill-downs preceded it.
C6_DrawDOMEmptiesStack == RenderedExternally => treeStack = <<>>

\* an external call of drawDOM has rendered the fetched document while the
\* stack holds a tree of the document rendered before
C6_Witness ==
    /\ RenderedExternally
    /\ currentTree.nodeRef = FetchedDocument
    /\ Len(treeStack) > 0
    /\ treeStack[1].nodeRef = Document

\* C7 as stated: whenever the navigation stack is empty, the current tree is
\* the root view: its source root is the root most recently supplied to
\* drawDOM from outside.
C7_EmptyStackIsRootView ==
    (treeStack = <<>> /\ currentTree # NoTree) => currentTree.nodeRef = suppliedRoot

\* What does hold: with an empty stack the current tree is the view of a
\* document, and in a renderCurrentDOM session, where drawDOM is called from
\* outside once, it is the view of the page's document.
C7_EmptyStackIsADocumentView ==
    (treeStack = <<>> /\ currentTree # NoTree) =>
        /\ currentTree.nodeRef \in Documents
        /\ observing => currentTree.nodeRef = suppliedRoot

\* a back click has emptied the stack and shows a document that is not the
\* one rendered last
C7_Witness ==
    /\ IsBack(lastEvent)
    /\ treeStack = <<>>
    /\ currentTree.nodeRef \in Documents
    /\ currentTree.nodeRef # suppliedRoot

\* C8 as stated: drawDOM with a root that is no document (null) is a silent
\* no-op: nothing is built or drawn, the current tree, the cell height and
\* the drawing context stay as they are, and no exception reaches the caller.
C8_Step ==
    (lastEvent'.kind = "drawDOM" /\ lastEvent'.ref = Null) =>
        /\ drawn' = <<>>
        /\ UNCHANGED <<currentTree, cellHeight, currentTreeHeight, ctx, treeStack>>
        /\ ~threw'

C8_BadRootIsNoOp == [][C8_Step]_vars

\* drawDOM was called with null while a tree was shown: the exception has
\* reached the caller
C8_Witness ==
    /\ lastEvent.kind = "drawDOM"
    /\ lastEvent.ref = Null
    /\ threw
    /\ currentTree # NoTree

(***************************************************************************)
(* Clicks and hovers that change nothing, and the back click.              *)
(***************************************************************************)
\* C9: a click or a hover for which the hit-tester finds no node (the click
\* not being a back click) changes nothing: the current tree, the stack, the
\* cell heights, the highlight slot and the live tree stay as they are,
\* nothing is drawn and nothing is raised.
C9_Step ==
    (IsMissedClick(lastEvent') \/ IsMissedHover(lastEvent')) =>
        /\ UNCHANGED <<currentTree, treeStack, cellHeight, currentTreeHeight,
                       currentHoveredNode, previousNodeBackgroundColor, kids, style>>
        /\ drawn' = <<>>
        /\ ~threw'

C9_MissChangesNothing == [][C9_Step]_vars

\* a click has missed every marker while the stack held a tree and a live
\* node was highlighted
C9_Witness ==
    /\ IsMissedClick(lastEvent)
    /\ Len(treeStack) > 0
    /\ currentHoveredNode # Null
    /\ style[currentHoveredNode] = Highlight

\* the points of the back region among the click points
BackPoints ==
    {p \in ClickPoints : Less(p[1], Num(BackRegion)) /\ Less(p[2], Num(BackRegion))}

\* C10: a click at (x, y) with x < 20 and y < 20 while the stack is not empty
\* pops the stack and makes the popped tree current; the hit-tester is not
\* run and no tree is pushed, even when the marker box of a node holds (x, y).
C10_Step ==
    \A p \in BackPoints :
        (Len(treeStack) > 0 /\ handleCanvasClick(p[1], p[2])) =>
            /\ treeStack' = SubSeq(treeStack, 1, Len(treeStack) - 1)
            /\ currentTree' = treeStack[Len(treeStack)]
            /\ ~lastEvent'.searched
            /\ lastEvent'.found = NoNode

C10_BackClickPops == [][C10_Step]_vars

\* a back click at a point the marker box of a node held has popped the stack
C10_Witness ==
    /\ IsBack(lastEvent)
    /\ lastEvent.covered
    /\ Len(treeStack) = MaxStack - 1

(***************************************************************************)
(* The back arrow.                                                         *)
(***************************************************************************)
\* the canvas calls of the last handler run include call
Drew(call) == \E i \in 1 .. Len(drawn) : drawn[i] = call

\* the last handler run rendered a tree: it cleared the canvas
RenderedATree == Drew(ClearRect)

\* C11: after every render, whichever event caused it (drawDOM called from
\* outside, a drill-down, a back click, a hover redraw, the mutation
\* callback), the back arrow has been drawn in that render if and only if
\* the navigation stack is not empty when the event ends.
C11_ArrowIffStackNotEmpty ==
    RenderedATree => (Drew(BackArrow) <=> Len(treeStack) > 0)

\* a back click has emptied the stack and rendered without the arrow, after
\* a mutation callback had rendered
C11_Witness ==
    /\ IsBack(lastEvent)
    /\ RenderedATree
    /\ treeStack = <<>>
    /\ ~Drew(BackArrow)
    /\ nMutations > 0

(***************************************************************************)
(* The hover highlight.                                                    *)
(***************************************************************************)
\* the live nodes whose background is the highlight colour
HighlightedNodes == {n \in Nodes : style[n] = Highlight}

\* a step that applies the highlight to another node than the one that
\* carried it leaves the earlier node with the background it had before
C12_Step ==
    (/\ currentHoveredNode # Null
     /\ currentHoveredNode' # currentHoveredNode)
    => /\ style'[currentHoveredNode] = previousNodeBackgroundColor
       /\ style'[currentHoveredNode] # Highlight
       /\ style'[currentHoveredNode'] = Highlight

\* C12: in every reachable state at most one live source node carries the
\* hover highlight background, and whenever the highlight is applied to a
\* new node the previously highlighted node has been reverted in the same
\* handler run.
C12_AtMostOneHighlighted ==
    /\ [](Cardinality(HighlightedNodes) <= 1)
    /\ [][C12_Step]_vars

\* the hover handler has highlighted the first child of BODY in the view
\* two levels below the document, and no other node is highlighted
C12_Witness ==
    /\ lastEvent.kind = "hover"
    /\ lastEvent.ref = 5
    /\ currentHoveredNode = 5
    /\ HighlightedNodes = {5}
    /\ Len(treeStack) = 2

(***************************************************************************)
(* The debounce timers and the listeners of the canvas.                    *)
(***************************************************************************)
\* C13: for a burst of mousemove events on the canvas, each less than the
\* debounce window after the one before, the hover handler is invoked once,
\* with the position of the burst's last event, after any number of earlier
\* renders and hovers: the timer callbacks that have run the handler since
\* the last mousemove event are never more than one.
C13_BurstInvokesHandlerOnce == invocations <= 1

\* C14: after any number of calls of drawDOM on the same canvas, those the
\* hover handler and the mutation callback make included, the canvas holds
\* exactly one click listener and exactly one mousemove listener.
C14_OneListenerOfEachKind ==
    listening => (clickListeners = 1 /\ mousemoveListeners = 1)

(***************************************************************************)
(* The shape of built trees.                                               *)
(***************************************************************************)
RECURSIVE DepthsFollow(_)
\* below node every child is one level deeper than its parent
DepthsFollow(node) ==
    \A i \in 1 .. Len(node.children) :
        /\ node.children[i].depth = node.depth + 1
        /\ DepthsFollow(node.children[i])

\* C15: in every built tree the root has depth 0 and every child's depth is
\* its parent's depth plus 1.
C15_DepthsCountFromRoot ==
    \A t \in HeldTrees : t.depth = 0 /\ DepthsFollow(t)

\* a tree below the document's is shown after a drill-down: it has nodes
\* at depth 1 with the tags of BODY's children, and the tree of the
\* document, with nodes at depth 3, is held at the bottom of the stack
C15_Witness ==
    /\ Len(treeStack) > 0
    /\ currentTree.tagName = "BODY"
    /\ \E n \in NodesOf(currentTree) : n.depth = 1 /\ n.tagName = "IMG"
    /\ \E n \in NodesOf(treeStack[1]) : n.depth = 3 /\ n.tagName = "IMG"

\* the greatest depth of a node of tree
MaxDepth(tree) ==
    CHOOSE d \in {n.depth : n \in NodesOf(tree)} :
        \A n \in NodesOf(tree) : n.depth <= d

\* C16: after any sequence of builds, drill-downs, back clicks, hovers and
\* mutation notifications, the current tree's largestDepth is the greatest
\* depth of a node present in the current tree; it is never a value carried
\* over from an earlier, deeper or shallower tree.
C16_LargestDepthIsMaxDepth ==
    currentTree # NoTree => currentTree.largestDepth = MaxDepth(currentTree)

\* a shallower tree than the one held on the stack is shown, after a
\* mutation callback has rebuilt the trees
C16_Witness ==
    /\ Len(treeStack) > 0
    /\ nMutations > 0
    /\ ~pendingMutation
    /\ currentTree.largestDepth < treeStack[1].largestDepth
    /\ currentTree.largestDepth = MaxDepth(currentTree)

\* the sibling and end-child links of node's children
SiblingsLinked(node) ==
    LET c == node.children
        n == Len(c)
    IN  /\ c[1].previousElementSibling = NoNode
        /\ c[1].previousSibling = NoNode
        /\ c[n].nextElementSibling = NoNode
        /\ c[n].nextSibling = NoNode
        /\ \A i \in 1 .. n - 1 :
              /\ c[i].nextElementSibling = c[i + 1].obj
              /\ c[i + 1].previousElementSibling = c[i].obj
        /\ node.firstElementChild = c[1].obj
        /\ node.lastElementChild = c[n].obj

\* C17: for every node with at least 2 children in a built tree, the first
\* child's previous-sibling link is none, the last child's next-sibling link
\* is none, children[i].nextElementSibling is children[i+1] and
\* children[i+1].previousElementSibling is children[i] for every adjacent
\* pair, and firstElementChild and lastElementChild are children[0] and
\* children[n-1].
C17_SiblingLinks ==
    \A t \in HeldTrees : \A node \in NodesOf(t) :
        Len(node.children) >= 2 => SiblingsLinked(node)

\* the tree of BODY is shown, with its five children after the page's
\* script appended one
C17_Witness ==
    /\ currentTree # NoTree
    /\ currentTree.tagName = "BODY"
    /\ Len(currentTree.children) = 5
    /\ SiblingsLinked(currentTree)

\* C18: a source node with no element children produces a snapshot node
\* whose children sequence is empty and whose firstElementChild and
\* lastElementChild are both none.
C18_LeafHasNoChildLinks ==
    \A t \in HeldTrees : \A node \in NodesOf(t) :
        node.childElementCount = 0 =>
            /\ node.children = <<>>
            /\ node.firstElementChild = NoNode
            /\ node.lastElementChild = NoNode

\* a leaf has been drilled into: the tree shown is one node without children
C18_Witness ==
    /\ currentTree # NoTree
    /\ Len(treeStack) > 0
    /\ currentTree.childElementCount = 0
    /\ currentTree.children = <<>>
    /\ currentTree.firstElementChild = NoNode

(***************************************************************************)
(* The division of line 199.                                               *)
(***************************************************************************)
\* The divisions the visits that built tree evaluated: var width =
\* (end - start) / childCount stands before the loop and under no test of
\* childCount, so every visit evaluates it once, with the end, start and
\* childElementCount the new node holds.
WidthDivisions(tree) ==
    {[dividend |-> Minus(n.end, n.start),
      divisor |-> n.childElementCount,
      width |-> ChildWidth(n.start, n.end, n.childElementCount)] :
        n \in NodesOf(tree)}

\* C19: the builder divides the interval width by the child count only when
\* the child count is greater than 0: for a node with zero children the
\* division (end - start) / childCount is never evaluated.
C19_DivisionOnlyWithChildren ==
    \A t \in HeldTrees : \A d \in WidthDivisions(t) : d.divisor > 0

(***************************************************************************)
(* Repeated builds.                                                        *)
(***************************************************************************)
\* a run of drawDOM(canvas, root) from outside has just built and shown a
\* tree
BuiltFrom(e, failed) == e.kind = "drawDOM" /\ ~failed

\* drawDOM called from outside twice in a row with the same root, whose
\* live tree is the same at both calls, builds the same tree twice, over
\* [0, canvas.width] both times, whatever the module held at the first call
C20_Step ==
    (/\ BuiltFrom(lastEvent, threw)
     /\ BuiltFrom(lastEvent', threw')
     /\ lastEvent'.ref = lastEvent.ref
     /\ kids' = kids)
    => currentTree' = currentTree

RECURSIVE PreOrder(_)
RECURSIVE PreOrderFrom(_, _)
\* the nodes below node's children from child i on, in visit order
PreOrderFrom(node, i) ==
    IF i > Len(node.children) THEN <<>>
    ELSE PreOrder(node.children[i]) \o PreOrderFrom(node, i + 1)
\* the nodes of the tree under node in the order traverseDomNodes visits them
PreOrder(node) == <<node>> \o PreOrderFrom(node, 1)

\* a hyperlink node whose attribute mapping, the one its source node
\* carries, has an href
IsLinkWithHref(n) == n.tagName \in {"A", "AREA"} /\ "href" \in DOMAIN n.attributes
IsImage(n) == n.tagName = "IMG"

\* the identities of the nodes of tree that satisfy Test, in visit order
Indexed(tree, Test(_)) ==
    LET hits == SelectSeq(PreOrder(tree), Test)
    IN  [i \in 1 .. Len(hits) |-> IF hits[i].obj = AugmentedRoot THEN <<>> ELSE hits[i].obj]

\* C21: after a build, the links bucket contains exactly the nodes with tag
\* A or AREA whose source node carries an href attribute, and no hyperlink
\* node without that attribute (and the images bucket the IMG nodes).
C21_LinksAreHyperlinksWithHref ==
    \A t \in HeldTrees :
        /\ t.links = Indexed(t, IsLinkWithHref)
        /\ t.images = Indexed(t, IsImage)

\* the identity, within its build, of a node of a returned tree: the root
\* object traverseDomNodes made is the one the index refers to
BuiltObj(n) == IF n.obj = AugmentedRoot THEN <<>> ELSE n.obj

\* the nodes of tree that carry identifier k, in visit order
Carrying(tree, k) == SelectSeq(PreOrder(tree), LAMBDA n : n.id = k)

\* the identifier map of tree has one entry for every identifier a node
\* carries and no other, and the entry is the last node visited with it
LastVisitedWins(tree) ==
    /\ DOMAIN tree.ids = {n.id : n \in NodesOf(tree)} \ {""}
    /\ \A k \in DOMAIN tree.ids :
          tree.ids[k] = BuiltObj(Carrying(tree, k)[Len(Carrying(tree, k))])

\* C22: after a build, for every identifier that occurs on at least one
\* source node, the identifier map holds exactly one entry for it, and that
\* entry is the snapshot node of the last node in pre-order visit order
\* carrying that identifier; duplicates raise no error (lines 186-190 are
\* a plain assignment: the trees with duplicates are built and held).
C22_IdsLastVisitedWins == \A t \in HeldTrees : LastVisitedWins(t)

\* the tree of BODY is shown after a drill-down: two of its nodes carry the
\* identifier x, and the map's entry for x is the second of them, the image
C22_Witness ==
    /\ Len(treeStack) > 0
    /\ currentTree.tagName = "BODY"
    /\ Len(Carrying(currentTree, "x")) = 2
    /\ currentTree.ids["x"] = currentTree.children[2].obj
    /\ currentTree.children[2].tagName = "IMG"
    /\ ~threw

(***************************************************************************)
(* Writes to the live tree.                                                *)
(***************************************************************************)
\* the runs of the builder, the renderer, the hit-tester and the handlers:
\* drawDOM called from outside, a click, a hover, the mutation callback
CoreKinds == {"drawDOM", "click", "hover", "mutationCallback"}

\* the live nodes whose background a step changes
Restyled == {n \in Nodes : style'[n] # style[n]}

\* only a hover that found a node writes a background: that of the node
\* highlighted before and that of the node found
HoverWritesOnly ==
    /\ lastEvent'.kind # "hover" => Restyled = {}
    /\ lastEvent'.kind = "hover" =>
          /\ Restyled \subseteq {currentHoveredNode, lastEvent'.ref}
          /\ Restyled # {} => lastEvent'.covered

\* C23: the builder, the renderer, the hit-tester, the click handler and the
\* mutation callback never change the child lists of the live tree (tags,
\* ids and attributes are written by no statement of the module), and the
\* only write to a live node is the hover handler's: the background of the
\* node highlighted before and of the node found.  renderCurrentDOM's
\* insertion of its own close button and canvas into document.body is page
\* wiring: it follows the drawDOM call and is the one module step that
\* changes a child list.
C23_StepReadOnly ==
    /\ lastEvent'.kind \in CoreKinds => kids' = kids
    /\ lastEvent'.kind = "renderCurrentDOM" =>
          kids' = [kids EXCEPT ![Body] = @ \o <<CloseDiv, Canvas>>]
    /\ HoverWritesOnly

IndexRefs(tree) ==
    {tree.body, tree.head, tree.documentElement}
    \cup {tree.ids[k] : k \in DOMAIN tree.ids}
    \cup {tree.links[i] : i \in DOMAIN tree.links}
    \cup {tree.images[i] : i \in DOMAIN tree.images}
    \cup {tree.scripts[i] : i \in DOMAIN tree.scripts}
    \cup {tree.forms[i] : i \in DOMAIN tree.forms}

\* the node objects of the build that made `tree`
BuiltObjs(tree) == {BuiltObj(n) : n \in NodesOf(tree)}

\* every visit of the build made an object of its own, and the parent links
\* and the index refer to objects of this build only
OwnsItsNodes(tree) ==
    /\ Cardinality(BuiltObjs(tree)) = Len(PreOrder(tree))
    /\ IndexRefs(tree) \subseteq BuiltObjs(tree) \cup {NoNode}
    /\ \A n \in NodesOf(tree) : \A i \in DOMAIN n.children :
          n.children[i].parentNode = BuiltObj(n)

\* the trees of the stack stay as they were built: a step other than the
\* mutation callback (which replaces every tree by a new one) leaves the
\* stack alone, pushes the current tree as it is, or pops the last tree,
\* as it is, into currentTree
HeldTreesKept ==
    lastEvent'.kind # "mutationCallback" =>
        \/ treeStack' = treeStack
        \/ treeStack' = Append(treeStack, currentTree)
        \/ /\ treeStack # <<>>
           /\ treeStack' = SubSeq(treeStack, 1, Len(treeStack) - 1)
           /\ currentTree' = treeStack[Len(treeStack)]

\* C24: after a build has returned, no operation (render, hit-test, click,
\* hover, mutation callback, a build that takes the tree as its source)
\* changes a field of a node of the tree: a tree is held unchanged until it
\* is dropped; rebuilds make new nodes, and the node objects a tree refers
\* to are all of its own build.
C24_SnapshotsStayAsBuilt ==
    /\ [][HeldTreesKept]_vars
    /\ [](\A t \in HeldTrees : OwnsItsNodes(t))

\* a drill-down has just taken a node of the current tree as the source of
\* a build; the source tree lies on the stack, two levels deep
C24_Witness ==
    /\ lastEvent.kind = "click"
    /\ lastEvent.covered
    /\ Len(treeStack) = 2
    /\ treeStack[2].tagName = "BODY"
    /\ currentTree.tagName = "IMG"
    /\ currentTree.ids["x"] = <<>>

(***************************************************************************)
(* The remote-fetch glue (public/javascripts/app.js).                      *)
(***************************************************************************)
\* The proxy answers a failed request with an empty body (routes/index.js,
\* res.send('')); the XMLHttpRequest, whose responseType is 'document', then
\* has the response null, and its load listener calls
\* drawDOM(myCanvas, this.response).
FailedFetchResponse == NullRoot

\* the load listener of the XMLHttpRequest has just run on a failed fetch
FailedFetchHandled ==
    /\ lastEvent'.kind = "drawDOM"
    /\ lastEvent'.ref = FailedFetchResponse.ref

\* C25: when the fetch fails (the proxy answers with an empty body) the
\* current view is left untouched: nothing is drawn, the current tree and
\* the navigation stack are unchanged, and no exception is raised.  (On an
\* empty URL input the submit listener returns before any request.)
C25_Step ==
    FailedFetchHandled =>
        /\ drawn' = <<>>
        /\ currentTree' = currentTree
        /\ treeStack' = treeStack
        /\ ~threw'

C25_FailedFetchLeavesViewUntouched == [][C25_Step]_vars

(***************************************************************************)
(* The hit-tester on the boundaries between children.                      *)
(***************************************************************************)
\* the x of the boundaries that two adjacent children of p, both of
\* non-zero width, share
SharedBoundaries(p) ==
    {p.children[i].end : i \in {j \in 1 .. Len(p.children) - 1 :
        /\ Less(p.children[j].start, p.children[j].end)
        /\ Less(p.children[j + 1].start, p.children[j + 1].end)
        /\ p.children[j].end = p.children[j + 1].start}}

\* the y of the rows of markers of tree, and a y above them
RowYs(tree) == {CenterY(n, cellHeight) : n \in NodesOf(tree)} \cup {Num(10)}

\* the x of the pixels of the surface and of the ends and centres of the
\* intervals of tree
ProbeXs(tree) ==
    {Num(i) : i \in 0 .. canvasWidth}
    \cup UNION {{n.start, n.end, CenterX(n)} : n \in NodesOf(tree)}

\* the children of p that the loop of the hit-tester would enter for x
Entered(p, x) == {i \in DOMAIN p.children : InRange(p.children[i], x)}

\* C26: for a point whose x is the boundary that two adjacent children of p
\* (of non-zero width) share and which is outside p's marker box, the
\* hit-tester started at p answers none; and for any x at most one child of
\* p has an interval that strictly contains x.
C26_BoundaryMatchesNeitherNeighbour ==
    currentTree # NoTree =>
        \A p \in NodesOf(currentTree) :
            /\ \A x \in SharedBoundaries(p) : \A y \in RowYs(currentTree) :
                  ~IsInNode(p, x, y, cellHeight) =>
                      /\ Entered(p, x) = {}
                      /\ searchForNodeWithXY(p, x, y) = NotFound
            /\ \A x \in ProbeXs(currentTree) : Cardinality(Entered(p, x)) <= 1

\* a click on the boundary between the first two of BODY's five children
\* (the page's two, the overlay's two and the script's anchor), in their
\* row, has found no node; the point is outside BODY's box, and a pixel
\* further to the right the hit-tester finds the second child
C26_Witness ==
    /\ IsMissedClick(lastEvent)
    /\ currentTree.tagName = "BODY"
    /\ Len(currentTree.children) = 5
    /\ \E pt \in BoundaryPoints(currentTree) :
          /\ pt[1] \in SharedBoundaries(currentTree)
          /\ ~IsInNode(currentTree, pt[1], pt[2], cellHeight)
          /\ searchForNodeWithXY(currentTree, pt[1], pt[2]) = NotFound
          /\ searchForNodeWithXY(currentTree, Plus(pt[1], Num(1)), pt[2])
                = currentTree.children[2]

(***************************************************************************)
(* What the hit-tester answers.                                            *)
(***************************************************************************)
\* |a - b| <= 5
WithinRadius(a, b) ==
    LessEq(Minus(a, b), Num(radius)) /\ LessEq(Minus(b, a), Num(radius))

\* (x, y) lies in the box of 5 around the marker centre of n
InMarkerBox(n, x, y) ==
    WithinRadius(x, CenterX(n)) /\ WithinRadius(y, CenterY(n, cellHeight))

\* two opposite corners of the marker box of n, the points one unit to the
\* left and to the right of the box, and the centre
BoxProbes(n) ==
    {<<Plus(CenterX(n), Num(d[1])), Plus(CenterY(n, cellHeight), Num(d[2]))>> :
        d \in {<<0 - 5, 0 - 5>>, <<5, 5>>, <<0 - 6, 0>>, <<6, 0>>, <<0, 0>>}}

ProbePoints(tree) ==
    UNION {BoxProbes(n) : n \in NodesOf(tree)} \cup BoundaryPoints(tree) \cup CornerPoints

\* n is a node of tree in whose box (x, y) lies, no node above n has
\* (x, y) in its box, and x is strictly inside the interval of n and of
\* every node above n but the root
WellFound(tree, n, x, y) ==
    /\ n \in NodesOf(tree)
    /\ InMarkerBox(n, x, y)
    /\ \A a \in ProperAncestors(tree, n) : ~InMarkerBox(a, x, y)
    /\ \A a \in (ProperAncestors(tree, n) \cup {n}) \ {tree} :
          Less(a.start, x) /\ Less(x, a.end)

\* C27: whenever the hit-tester answers a node n for (x, y), n is a node of
\* the tree it was started on, |x - cx(n)| <= 5 and |y - cy(n)| <= 5, no
\* proper ancestor of n passes that box test, and x is strictly inside the
\* interval of every node on the path from the root's child down to n.
FoundIsWellFound(tree, found, pt) ==
    found # NotFound => WellFound(tree, found, pt[1], pt[2])

\* The hit-tester is probed in the states a rendering leads to: the
\* current tree and cellHeight change in no other step.
ProbesAreWellFound ==
    RenderedATree =>
        \A pt \in ProbePoints(currentTree) :
            FoundIsWellFound(currentTree,
                             searchForNodeWithXY(currentTree, pt[1], pt[2]), pt)

\* the node a click or hover handler has got from the hit-tester is a node
\* of the tree that was the current tree when the handler started
HandlerFindsNodeOfCurrentTree ==
    (lastEvent'.kind \in {"click", "hover"} /\ lastEvent'.searched
        /\ lastEvent'.covered) =>
        \E n \in NodesOf(currentTree) :
            n.obj = lastEvent'.found /\ n.nodeRef = lastEvent'.ref

C27_FoundNodeIsWellFound ==
    /\ [](ProbesAreWellFound)
    /\ [][HandlerFindsNodeOfCurrentTree]_vars

\* a drill-down has drawn a tree with children; the hit-tester answers a
\* child of its root for a corner of the child's box
C27_Witness ==
    /\ lastEvent.kind = "click"
    /\ lastEvent.covered
    /\ Len(treeStack) > 0
    /\ \E n \in NodesOf(currentTree) :
          /\ n.depth = 1
          /\ \E pt \in BoxProbes(n) :
                /\ pt # Center(n)
                /\ searchForNodeWithXY(currentTree, pt[1], pt[2]) = n

(***************************************************************************)
(* The cell height of the hit-tester and of the renderer.                  *)
(***************************************************************************)
\* the markers of the last rendering lie where the hit-tester, with the
\* module's cellHeight, takes the markers of the current tree to be
MarkersWhereHitTested ==
    \A i \in 1 .. Len(drawn) :
        drawn[i].op = "arc" =>
            \E n \in NodesOf(currentTree) :
                n.obj = drawn[i].node /\ drawn[i].at = Center(n)

CellHeightIsCurrent ==
    currentTree # NoTree =>
        /\ cellHeight = Over(Num(canvasHeight), Num(currentTree.largestDepth + 1))
        /\ RenderedATree => MarkersWhereHitTested

\* the current tree and the cell height change only in steps that render
ChangedByRendering ==
    (currentTree' # currentTree \/ cellHeight' # cellHeight) =>
        \E i \in 1 .. Len(drawn') : drawn'[i] = ClearRect

\* C28: whenever a click or hover handler may hit-test, after any renders,
\* drill-downs, back clicks, hovers and mutation callbacks, cellHeight is
\* surfaceHeight / (currentTree.largestDepth + 1), the value the current
\* tree was last rendered with: the centres the hit-tester computes are the
\* centres of the drawn markers.
C28_CellHeightIsThatOfTheRendering ==
    /\ [](CellHeightIsCurrent)
    /\ [][ChangedByRendering]_vars

\* after a mutation callback and a drill-down, a hover has redrawn a tree
\* whose rows are further apart than those of the tree on the stack
C28_Witness ==
    /\ lastEvent.kind = "hover"
    /\ lastEvent.covered
    /\ RenderedATree
    /\ nMutations > 0
    /\ Len(treeStack) > 0
    /\ Less(CellHeightOf(treeStack[1]), cellHeight)

(***************************************************************************)
(* The order of the drawing calls of a render.                             *)
(***************************************************************************)
\* the calls of the last render: the hover handler's own label, which it
\* draws after its drawDOM has returned, is not one of them
RenderCalls ==
    IF lastEvent.kind = "hover" /\ drawn # <<>>
    THEN SubSeq(drawn, 1, Len(drawn) - 1)
    ELSE drawn

\* the positions in calls of the markers of the node object obj
MarkerCalls(calls, obj) ==
    {i \in 1 .. Len(calls) : calls[i].op = "arc" /\ calls[i].node = obj}

\* the call draws a marker or label of the node object obj, or a line
\* that ends at obj (the connector from its parent, the sibling span)
BelongsTo(call, obj) ==
    \/ call.op \in {"arc", "fillText"} /\ call.node = obj
    \/ call.op = "line" /\ (call.to = obj \/ call.from = obj)

\* the marker of n is drawn once, after every call that belongs to a node
\* below n, and after the connectors from n to its children
MarkerDrawnLast(calls, n) ==
    /\ Cardinality(MarkerCalls(calls, n.obj)) = 1
    /\ \A i \in MarkerCalls(calls, n.obj) : \A j \in 1 .. Len(calls) :
          /\ (\E d \in NodesOf(n) \ {n} : BelongsTo(calls[j], d.obj)) => j < i
          /\ (calls[j].op = "line" /\ calls[j].from = n.obj) => j < i

\* C29: in the drawing calls of one render every node's marker is drawn
\* exactly once, after every call that belongs to its descendants (their
\* connectors, sibling spans and markers) and after the connectors from the
\* node to its own children.
C29_MarkerAfterDescendants ==
    RenderedATree => \A n \in NodesOf(currentTree) : MarkerDrawnLast(RenderCalls, n)

\* the document has been rendered after a mutation: the root's marker is
\* the last call but the hover label, and BODY's marker follows the markers
\* and the span of its five children
C29_Witness ==
    /\ RenderedATree
    /\ currentTree.tagName = "undefined"
    /\ RenderCalls[Len(RenderCalls)].op = "arc"
    /\ RenderCalls[Len(RenderCalls)].node = AugmentedRoot
    /\ \E n \in NodesOf(currentTree) :
          /\ n.tagName = "BODY"
          /\ Len(n.children) = 5
          /\ \E j \in 1 .. Len(RenderCalls) :
                /\ RenderCalls[j].op = "line"
                /\ RenderCalls[j].from = n.children[1].obj
                /\ RenderCalls[j].to = n.children[5].obj

(***************************************************************************)
(* The background of the highlighted node.                                 *)
(***************************************************************************)
\* no page script writes a background here: a node that is not highlighted
\* has the background the page gave it, and the highlighted node is the
\* one the module tracks, with the page's background saved
BackgroundsAccounted ==
    \A n \in Nodes :
        /\ style[n] \in {InitialStyle[n], Highlight}
        /\ style[n] = Highlight =>
              /\ n = currentHoveredNode
              /\ previousNodeBackgroundColor = InitialStyle[n]

\* the step takes the highlight away from a: the close handler runs, or
\* the hover handler has found a node other than a
LeavesNode(a) ==
    \/ lastEvent'.kind = "close"
    \/ /\ lastEvent'.kind = "hover"
       /\ lastEvent'.covered
       /\ lastEvent'.ref # a

C30_Step ==
    \A a \in Nodes :
        \* the value a has immediately before it is highlighted is saved
        /\ (style[a] # Highlight /\ style'[a] = Highlight) =>
              /\ previousNodeBackgroundColor' = style[a]
              /\ currentHoveredNode' = a
        \* and kept through repeated hovers over a
        /\ (style[a] = Highlight /\ style'[a] = Highlight) =>
              /\ previousNodeBackgroundColor' = previousNodeBackgroundColor
              /\ currentHoveredNode' = a
        \* and given back when the highlight moves on or the view is closed
        /\ (style[a] = Highlight /\ LeavesNode(a)) =>
              /\ style'[a] = previousNodeBackgroundColor
              /\ style'[a] = InitialStyle[a]

\* C30: when the highlight moves from node A to another node, or the view
\* is closed, A's background is exactly what it was immediately before A
\* was highlighted, for every sequence of hovers: repeated hovers over the
\* same node, hovers over nodes without a style.
C30_HighlightRestoresBackground ==
    /\ [](BackgroundsAccounted)
    /\ [][C30_Step]_vars

\* the view has just been closed, two levels down, with the page's red
\* anchor as the tracked node: the anchor is red, and no node is highlighted
C30_Witness ==
    /\ lastEvent.kind = "close"
    /\ currentHoveredNode = 5
    /\ previousNodeBackgroundColor = "red"
    /\ style[5] = "red"
    /\ HighlightedNodes = {}
    /\ Len(treeStack) > 0
    /\ ~Attached(Canvas)

(***************************************************************************)
(* The parent links of a returned tree.                                    *)
(***************************************************************************)
\* every child of n has n itself, the node object, as its parentNode
ParentIsContainer(n) ==
    \A i \in DOMAIN n.children : n.children[i].parentNode = n.obj

\* C31: in every tree the builder returns, for every node n reachable from
\* the returned root (the root included) and every child c of n, c's
\* parentNode is n itself, the same node object, and the parentNode of the
\* returned root is none.
C31_ParentIsTheContainingNode ==
    \A t \in HeldTrees :
        /\ t.parentNode = NoNode
        /\ \A n \in NodesOf(t) : ParentIsContainer(n)

\* a returned tree whose root has children: below the root every parentNode
\* is the containing node, and the root's children have the object that
\* traverseDomNodes made, of which the returned root is a copy
C31_Witness ==
    /\ currentTree # NoTree
    /\ currentTree.children # <<>>
    /\ currentTree.parentNode = NoNode
    /\ \A n \in NodesOf(currentTree) \ {currentTree} : ParentIsContainer(n)
    /\ \A i \in DOMAIN currentTree.children :
          /\ currentTree.children[i].parentNode = <<>>
          /\ currentTree.children[i].parentNode # currentTree.obj

(***************************************************************************)
(* The source references of the held trees.                                *)
(***************************************************************************)
\* the __nodeRef of n is a live node, the one n was copied from
RefersToLiveSource(n) ==
    /\ n.nodeRef \in Nodes
    /\ TagOf(n.nodeRef) = n.tagName
    /\ IdOf(n.nodeRef) = n.id

\* C32: in every reachable state the __nodeRef of every node of the current
\* tree and of every tree on the stack is a live source node, never a
\* snapshot node, however often trees were built from snapshots (drill-down,
\* hover redraw, mutation rebuild).
C32_NodeRefIsLive ==
    \A t \in HeldTrees : \A n \in NodesOf(t) : RefersToLiveSource(n)

\* after a mutation callback and two drill-downs a hover has redrawn the
\* current tree from itself: its root still refers to the page's anchor
C32_Witness ==
    /\ lastEvent.kind = "hover"
    /\ lastEvent.covered
    /\ RenderedATree
    /\ nMutations > 0
    /\ Len(treeStack) = 2
    /\ currentTree.nodeRef = 5
    /\ RefersToLiveSource(currentTree)

(***************************************************************************)
(* The attributes of nodes built from snapshot nodes.                      *)
(***************************************************************************)
\* the mapping the builder makes for a live node: the names and values of
\* an element's attributes, undefined for a document
LiveAttributes(n) == IF n \in Documents THEN NoAttributeCollection ELSE AttrsOf(n)

\* the build of the step took the node `found` of the current tree as its
\* source, and the root of the new tree has the mapping of that node
DrillDownKeepsMapping ==
    (IsDrillDown(lastEvent') /\ ~threw') =>
        \E n \in NodesOf(currentTree) :
            /\ n.obj = lastEvent'.found
            /\ currentTree'.attributes = n.attributes

\* C33: when the source of a build is a snapshot node, every new node has
\* the attribute mapping of its source node (reused, not copied again and
\* not emptied): names and values of the attributes are those of the live
\* node through any number of re-snapshots.
C33_AttributesSurviveResnapshots ==
    /\ [](\A t \in HeldTrees : \A n \in NodesOf(t) :
             n.attributes = LiveAttributes(n.nodeRef))
    /\ [][DrillDownKeepsMapping]_vars

\* a hover has redrawn, from itself, a tree that a drill-down built from a
\* snapshot node: its root has the href and the id of the page's anchor
C33_Witness ==
    /\ lastEvent.kind = "hover"
    /\ lastEvent.covered
    /\ RenderedATree
    /\ Len(treeStack) = 2
    /\ currentTree.nodeRef = 5
    /\ currentTree.attributes = AttrsOf(5)
    /\ currentTree.attributes["href"] = "u"

(***************************************************************************)
(* Builds from snapshot nodes and builds from their live sources.          *)
(***************************************************************************)
\* the live tree under the source of s is as s recorded it
SourceUnchanged(s) == SnapshotShape(s) = LiveShape(s.nodeRef)

\* createDOMLikeObject(s, 0, canvas.width) for a snapshot node s
Resnapshot(s) == createDOMLikeObject(s, Num(0), Num(canvasWidth))

\* C34: for an unchanged live tree, a build from a snapshot node s over an
\* interval gives the same tree (shape, tags, ids, depths, intervals,
\* largestDepth, ids map and every bucket, the links bucket too when an
\* href is present with an empty value) as a build from the live source of
\* s over that interval.
C34_ResnapshotEqualsLiveBuild ==
    currentTree # NoTree =>
        \A s \in NodesOf(currentTree) :
            SourceUnchanged(s) => Resnapshot(s) = FreshBuild(s)

\* the current tree holds the script's anchor, whose href is empty, and
\* the page below its root is as the tree recorded it: apart from the
\* links bucket the two builds agree
C34_Witness ==
    /\ currentTree # NoTree
    /\ SourceUnchanged(currentTree)
    /\ \E n \in NodesOf(currentTree) : n.nodeRef = Spare
    /\ Resnapshot(currentTree) # FreshBuild(currentTree)
    /\ WithoutLinks(Resnapshot(currentTree)) = WithoutLinks(FreshBuild(currentTree))
    /\ Len(Resnapshot(currentTree).links) < Len(FreshBuild(currentTree).links)

(***************************************************************************)
(* The current tree and the live tree in a renderCurrentDOM session.       *)
(***************************************************************************)
\* C35: in a renderCurrentDOM session, whenever no mutation record awaits
\* the observer's callback, the current tree has the shape (child counts
\* and child order at every node) of the live tree under its source root:
\* right after renderCurrentDOM returns, after every hover redraw and
\* drill-down.
C35_CurrentTreeHasLiveShape ==
    (observing /\ ~pendingMutation /\ currentTree # NoTree) =>
        SnapshotShape(currentTree) = LiveShape(currentTree.nodeRef)

\* renderCurrentDOM has returned: document.body has the overlay's two
\* elements after the page's two, the BODY node of the current tree has the
\* page's two only, and no callback is due
C35_Witness ==
    /\ lastEvent.kind = "renderCurrentDOM"
    /\ observing
    /\ ~pendingMutation
    /\ kids[Body] = <<5, 6, CloseDiv, Canvas>>
    /\ \E n \in NodesOf(currentTree) :
          /\ n.nodeRef = Body
          /\ Len(n.children) = 2

(***************************************************************************)
(* The highlight after the close button.                                   *)
(***************************************************************************)
\* the close handler of the session has run: the canvas is off the page
Closed == ~CanvasOnPage

\* C36: once the close handler of a renderCurrentDOM session has run, no
\* live node has the highlight background, in every interleaving of
\* mousemove events, pending debounce timers and the close click: a timer
\* that fires after the close does not highlight again.
C36_NoHighlightAfterClose == Closed => HighlightedNodes = {}

\* the view is closed, the callback of a timer that was pending at the
\* close has run the hover handler, and a node of the page is highlighted
C36_Witness ==
    /\ Closed
    /\ lastEvent.kind = "hover"
    /\ lastEvent.covered
    /\ invocations > 0
    /\ HighlightedNodes = {currentHoveredNode}

(***************************************************************************)
(* The roots of the held trees.                                            *)
(***************************************************************************)
\* C37: in every reachable state, the surface keeping its size, the root of
\* the current tree and the root of every tree on the stack have depth 0,
\* start 0 and end canvas.width, whichever operation made them (first
\* render, drill-down, back, hover redraw, mutation rebuild).
C37_RootsSpanTheSurface == \A t \in HeldTrees : SpansSurface(t)

\* after a mutation callback has rebuilt a stack of two trees, a hover has
\* redrawn the current tree, the page's anchor drilled down to: its root
\* and the roots on the stack span the surface
C37_Witness ==
    /\ lastEvent.kind = "hover"
    /\ lastEvent.covered
    /\ nMutations > 0
    /\ ~pendingMutation
    /\ Len(treeStack) = 2
    /\ currentTree.nodeRef = 5
    /\ currentTree.end = Num(canvasWidth)
    /\ treeStack[2].end = Num(canvasWidth)

(***************************************************************************)
(* The marker centres and the surface.                                     *)
(***************************************************************************)
\* 0 <= x <= canvas.width for the marker centre of n
CenterXOnSurface(n) ==
    LessEq(Num(0), CenterX(n)) /\ LessEq(CenterX(n), Num(canvasWidth))

\* 0 <= depth * cellHeight + 20 <= canvas.height for the marker centre of n
CenterYOnSurface(n) ==
    /\ LessEq(Num(0), CenterY(n, cellHeight))
    /\ LessEq(CenterY(n, cellHeight), Num(canvasHeight))

\* C38: for every node of a tree rendered with cellHeight =
\* canvas.height / (largestDepth + 1) the marker centre lies on the
\* surface: 0 <= x <= canvas.width and 0 <= depth * cellHeight + 20 <=
\* canvas.height, for every depth of the tree and every positive size of
\* the surface.
C38_MarkersOnSurface ==
    RenderedATree =>
        \A n \in NodesOf(currentTree) : CenterXOnSurface(n) /\ CenterYOnSurface(n)

\* a tree has been rendered whose rows are less than 20 apart: every
\* marker centre has its x on the surface, and the deepest row lies below
\* the surface
C38_Witness ==
    /\ RenderedATree
    /\ cellHeight = Over(Num(canvasHeight), Num(currentTree.largestDepth + 1))
    /\ Less(cellHeight, Num(MarkerOffset))
    /\ \A n \in NodesOf(currentTree) : CenterXOnSurface(n)
    /\ \E n \in NodesOf(currentTree) :
          /\ n.depth = currentTree.largestDepth
          /\ Less(Num(canvasHeight), CenterY(n, cellHeight))

(***************************************************************************)
(* The document index and the nodes of the returned tree.                  *)
(***************************************************************************)
\* the entries of the document index of tree, the unset documentElement,
\* head and body left out
IndexEntries(tree) == IndexRefs(tree) \ {NoNode}

\* the node objects of the returned tree: its root and what is reachable
\* from it through children
ReturnedObjs(tree) == {n.obj : n \in NodesOf(tree)}

\* C39: in every tree returned by createDOMLikeObject every entry of the
\* document index (the values of the identifier map, the elements of the
\* links, images, scripts and forms buckets, and documentElement, head and
\* body when set) is a node object of the returned tree: the returned root
\* or a node reachable from it through children.
C39_IndexEntriesAreNodesOfTheTree ==
    \A t \in HeldTrees : IndexEntries(t) \subseteq ReturnedObjs(t)

\* a drill-down into BODY returned a tree whose body entry is the object
\* the traversal made for the root, which is not the returned root and is
\* not among its descendants; every other entry is a node of the tree
C39_Witness ==
    /\ lastEvent.kind = "click"
    /\ lastEvent.found # NoNode
    /\ currentTree # NoTree
    /\ currentTree.tagName = "BODY"
    /\ currentTree.obj = AugmentedRoot
    /\ currentTree.body = <<>>
    /\ <<>> \notin ReturnedObjs(currentTree)
    /\ IndexEntries(currentTree) \ {<<>>} \subseteq ReturnedObjs(currentTree)

====
